---- MODULE Spec2Model ----
(***************************************************************************)
(* Model of the Voice.ai text-to-speech SDK (voice-ai-tts-sdk.js): the     *)
(* client constructor, the buffered transport _request, the streaming      *)
(* transport _streamRequest, and the public operations built on them.      *)
(*                                                                         *)
(* One action is one synchronous run of JavaScript: a public call up to    *)
(* the point where it hands control back to the event loop, or one event   *)
(* handler together with the promise continuations (microtasks) it         *)
(* triggers.                                                               *)
(***************************************************************************)
EXTENDS Integers, Sequences, FiniteSets, TLC

VARIABLES client, ctor, call, crashed, cli

vars == <<client, ctor, call, crashed, cli>>

-----------------------------------------------------------------------------
(* Bounds of the model.                                                    *)

\* The largest number of body chunks a server sends in one response.
MaxChunks == 3

\* The file sink's high-water mark, counted in chunks.
SinkHighWater == 2

-----------------------------------------------------------------------------
(* JavaScript values.  Every value is a record tagged by its type, with a  *)
(* field name of its own per type.                                         *)

Undefined == [t |-> "undefined"]
Null == [t |-> "null"]
Num(n) == [t |-> "num", n |-> n]
Str(s) == [t |-> "str", s |-> s]
Bool(b) == [t |-> "bool", b |-> b]
\* A string decoded from a body: the sequence of its lexical tokens.
Text(toks) == [t |-> "text", toks |-> toks]
\* A Buffer: the sequence of the tokens it holds, still undecoded.
Buf(bytes) == [t |-> "buf", bytes |-> bytes]
\* A parsed JSON object: its error and detail members (Undefined if absent).
Obj(e, d) == [t |-> "obj", error |-> e, detail |-> d]
EmptyArray == [t |-> "arr"]
\* The http.IncomingMessage handed out by the streaming transport.
ResStream == [t |-> "stream"]

\* !v
Falsy(v) ==
    \/ v.t \in {"undefined", "null"}
    \/ v.t = "num" /\ v.n = 0
    \/ v.t = "str" /\ v.s = ""
    \/ v.t = "text" /\ v.toks = <<>>
    \/ v.t = "bool" /\ ~v.b

\* a || b
OrElse(a, b) == IF Falsy(a) THEN b ELSE a

\* Reading a property of a null or undefined value throws a TypeError.
Throws(v) == v.t \in {"undefined", "null"}

\* v.error and v.detail, for a v on which the read does not throw.
GetError(v) == IF v.t = "obj" THEN v.error ELSE Undefined
GetDetail(v) == IF v.t = "obj" THEN v.detail ELSE Undefined

-----------------------------------------------------------------------------
(* Bodies.  A body is a sequence of lexical tokens; the server sends it in *)
(* chunks, each chunk a non-empty run of tokens.                           *)

ErrMember == "\"error\":\"boom\""
DetMember == "\"detail\":\"why\""

Chunks ==
    { <<"{", ErrMember>>,
      <<",", DetMember, "}">>,
      <<"}">>,
      <<"null">>,
      <<"oops">> }

RECURSIVE Concat(_)
\* Buffer.concat(chunks)
Concat(cs) == IF cs = <<>> THEN <<>> ELSE Head(cs) \o Concat(Tail(cs))

\* buffer.toString()
BufferToString(buf) == Text(buf.bytes)

\* The members between the braces: member (, member)*
IsMembers(ms) ==
    /\ Len(ms) % 2 = 1
    /\ \A i \in 1..Len(ms) :
          IF i % 2 = 1 THEN ms[i] \in {ErrMember, DetMember} ELSE ms[i] = ","

HasTok(ms, tok) == \E i \in 1..Len(ms) : ms[i] = tok

\* JSON.parse(text): ok is FALSE where JSON.parse throws a SyntaxError.
JSONParse(text) ==
    LET s == text.toks
        n == Len(s)
        inner == SubSeq(s, 2, n - 1)
    IN  IF s = <<"null">>
          THEN [ok |-> TRUE, val |-> Null]
        ELSE IF n >= 2 /\ s[1] = "{" /\ s[n] = "}" /\ (inner = <<>> \/ IsMembers(inner))
          THEN [ok |-> TRUE,
                val |-> Obj(IF HasTok(inner, ErrMember) THEN Str("boom") ELSE Undefined,
                            IF HasTok(inner, DetMember) THEN Str("why") ELSE Undefined)]
        ELSE [ok |-> FALSE, val |-> Undefined]

-----------------------------------------------------------------------------
(* Errors.                                                                 *)

\* super(message): an absent message is the empty string.
MessageOf(m) == IF m.t = "undefined" THEN Str("") ELSE m

\* A default parameter value applies when the argument is undefined.
Default(v, d) == IF v.t = "undefined" THEN d ELSE v

MkError(name, message, code, details) ==
    [name |-> name, message |-> MessageOf(message), code |-> code, details |-> details]

VoiceAIError(message, code, details) ==
    MkError("VoiceAIError", message, code, Default(details, Null))

AuthenticationError(message) ==
    MkError("AuthenticationError", Default(message, Str("Invalid or missing API key")),
            Num(401), Null)

PaymentRequiredError(message) ==
    MkError("PaymentRequiredError",
            Default(message, Str("Insufficient credits or voice slot limit reached")),
            Num(402), Null)

NotFoundError(message) ==
    MkError("NotFoundError", Default(message, Str("Resource not found")), Num(404), Null)

ValidationError(message, details) ==
    MkError("ValidationError", message, Num(422), Default(details, Null))

RateLimitError(message) ==
    MkError("RateLimitError", Default(message, Str("Rate limit exceeded")), Num(429), Null)

\* Errors raised by the runtime, not by the SDK.
TypeErrorV == MkError("TypeError", Str("type error"), Undefined, Undefined)
NetError == MkError("Error", Str("connect ECONNREFUSED"), Str("ECONNREFUSED"), Undefined)
HangUp == MkError("Error", Str("socket hang up"), Str("ECONNRESET"), Undefined)
Aborted == MkError("Error", Str("aborted"), Str("ECONNRESET"), Undefined)
FsError == MkError("Error", Str("ENOSPC"), Str("ENOSPC"), Undefined)
NoError == MkError("none", Undefined, Undefined, Undefined)

-----------------------------------------------------------------------------
(* Promises and completions.                                               *)

Pending == [st |-> "pending", val |-> Undefined, err |-> NoError]
Resolved(v) == [st |-> "resolved", val |-> v, err |-> NoError]
Rejected(e) == [st |-> "rejected", val |-> Undefined, err |-> e]

\* Variant of Settle in which the last call wins.
Settle_LastWins(p, outcome) == outcome

\* resolve(...) or reject(...) on a promise: only the first call settles it.
Settle(p, outcome) == IF p.st = "pending" THEN outcome ELSE p

-----------------------------------------------------------------------------
(* The client.                                                             *)

BASE_URL == Str("https://dev.voice.ai")
DefaultTimeout == 60000
HttpsPort == 443

ApiKeys == {Undefined, Null, Str(""), Str("sk-live")}
\* The options objects the constructor is called with: <<baseUrl, timeout>>.
ClientOptions ==
    { <<Undefined, Undefined>>,
      <<Str("https://tts.example:8443"), Num(5000)>>,
      <<Str("http://dev.voice.ai"), Undefined>>,
      <<Str("dev.voice.ai"), Num(0)>> }

NoClient ==
    [exists |-> FALSE, apiKey |-> Undefined, baseUrl |-> Undefined, timeout |-> Undefined]

\* new URL(path, base), as far as the transports read it: ok is FALSE where
\* the constructor throws a TypeError (the base is not an absolute URL).
URLParse(base) ==
    CASE base = Str("https://dev.voice.ai") ->
           [ok |-> TRUE, protocol |-> "https:", hostname |-> "dev.voice.ai", port |-> Str("")]
      [] base = Str("https://tts.example:8443") ->
           [ok |-> TRUE, protocol |-> "https:", hostname |-> "tts.example", port |-> Str("8443")]
      [] base = Str("http://dev.voice.ai") ->
           [ok |-> TRUE, protocol |-> "http:", hostname |-> "dev.voice.ai", port |-> Str("")]
      [] OTHER ->
           [ok |-> FALSE, protocol |-> "", hostname |-> "", port |-> Str("")]

\* Variant of Construct that refuses only an absent key.
Construct_AbsentKeyOnly(apiKey, baseUrl, timeout) ==
    IF apiKey.t = "undefined"
      THEN [done |-> Rejected(AuthenticationError(Str("API key is required"))),
            obj |-> NoClient]
      ELSE [done |-> Resolved(Undefined),
            obj |-> [exists |-> TRUE,
                     apiKey |-> apiKey,
                     baseUrl |-> OrElse(baseUrl, BASE_URL),
                     timeout |-> OrElse(timeout, Num(DefaultTimeout))]]

\* new VoiceAI(apiKey, options): the completion of the constructor and the
\* object it leaves behind.
Construct(apiKey, baseUrl, timeout) ==
    IF Falsy(apiKey)
      THEN [done |-> Rejected(AuthenticationError(Str("API key is required"))),
            obj |-> NoClient]
      ELSE [done |-> Resolved(Undefined),
            obj |-> [exists |-> TRUE,
                     apiKey |-> apiKey,
                     baseUrl |-> OrElse(baseUrl, BASE_URL),
                     timeout |-> OrElse(timeout, Num(DefaultTimeout))]]

-----------------------------------------------------------------------------
(* Query parameters.                                                       *)

Digit == <<"1", "2", "3", "4", "5", "6", "7", "8", "9">>

RECURSIVE NumStr(_)
\* String(n) for a natural number n
NumStr(n) ==
    IF n = 0 THEN "0"
    ELSE IF n < 10 THEN Digit[n]
    ELSE NumStr(n \div 10) \o (IF n % 10 = 0 THEN "0" ELSE Digit[n % 10])

\* The string URLSearchParams.append stores for a value.
ParamString(v) ==
    CASE v.t = "num" -> NumStr(v.n)
      [] v.t = "bool" -> IF v.b THEN "true" ELSE "false"
      [] v.t = "str" -> v.s
      [] v.t = "null" -> "null"
      [] OTHER -> "undefined"

\* Variant of KeepParam that keeps the truthy values only.
KeepParam_Truthy(v) == ~Falsy(v)

\* A parameter is appended unless its value is undefined or null.
KeepParam(v) == v.t # "undefined" /\ v.t # "null"

RECURSIVE BuildQuery(_)
\* The query of the request URL: params is the sequence of the mapping's
\* entries <<key, value>> in insertion order.
BuildQuery(params) ==
    IF params = <<>> THEN <<>>
    ELSE LET e == Head(params)
         IN  (IF KeepParam(e[2]) THEN << <<e[1], ParamString(e[2])>> >> ELSE <<>>)
               \o BuildQuery(Tail(params))

-----------------------------------------------------------------------------
(* One call of a public operation.                                         *)

API_PREFIX == "/api/v1"
USER_AGENT == "VoiceAI-SDK/1.1.4"
OutputPath == Str("out.mp3")

\* Variant of Bearer that sends an empty credential.
Bearer_Empty(key) == [t |-> "bearer", key |-> Str("")]

Bearer(key) == [t |-> "bearer", key |-> key]
MediaType(type, subtype) == [t |-> "mime", type |-> type, subtype |-> subtype]

NoReq ==
    [method |-> "", hostname |-> "", path |-> "", query |-> <<>>, port |-> Undefined,
     authorization |-> Undefined, userAgent |-> "", contentType |-> Undefined,
     timeout |-> Undefined, body |-> Undefined]

NoFile == [exists |-> FALSE, content |-> <<>>]

(* op       the public operation called ("none" before the call)           *)
(* arg      its required argument (the voice id or the options object)     *)
(* params   the query-parameter mapping given to _request, as the sequence *)
(*          of its entries                                                 *)
(* kind     the transport it reached: "buffered", "stream" or "none"       *)
(* conn     the request: "none", "open" (sent, no response yet), "body"    *)
(*          (response received, body arriving), "ended" (end emitted),     *)
(*          "handed" (live response given to the caller), "destroyed"      *)
(*          (req.destroy() called), "closed" (failed or dropped)           *)
(* req      the options given to https.request, nreq the number of calls   *)
(* chunks   the body chunks received so far, in arrival order              *)
(* parsed   whether JSON.parse was called on the body                      *)
(* inner    the promise of the transport, outcome the promise of the       *)
(*          public operation                                               *)
(* sink     the file write stream: "none", "open", "finished", "errored";  *)
(*          sinkBuf its chunks not yet written, file the destination file  *)
NoCall ==
    [op |-> "none", arg |-> Undefined, params |-> <<>>, kind |-> "none", conn |-> "none", req |-> NoReq,
     nreq |-> 0, binary |-> FALSE, status |-> 0, ctype |-> Undefined, chunks |-> <<>>,
     parsed |-> FALSE, inner |-> Pending, outcome |-> Pending, sink |-> "none",
     sinkBuf |-> <<>>, paused |-> FALSE, srcEnded |-> FALSE, file |-> NoFile]

Started(op, arg) == [NoCall EXCEPT !.op = op, !.arg = arg]

\* Variant of SchemeAllowed that lets every parsed URL through.
SchemeAllowed_Any(url) == TRUE

\* url.protocol === 'https:'
SchemeAllowed(url) == url.protocol = "https:"

\* _request(method, endpoint, {params, body, binary}) up to req.end().
Request(r, method, endpoint, params, body, binary) ==
    LET url == URLParse(client.baseUrl)
    IN  IF ~url.ok
          THEN [r EXCEPT !.kind = "buffered", !.inner = Rejected(TypeErrorV)]
        ELSE IF ~SchemeAllowed(url)
          THEN [r EXCEPT !.kind = "buffered",
                         !.inner = Rejected(ValidationError(
                                      Str("Only https baseUrl is supported"), Undefined))]
        ELSE [r EXCEPT !.kind = "buffered",
                       !.params = params,
                       !.binary = binary,
                       !.req = [method |-> method,
                                hostname |-> url.hostname,
                                path |-> API_PREFIX \o endpoint,
                                query |-> BuildQuery(params),
                                port |-> OrElse(url.port, Num(HttpsPort)),
                                authorization |-> Bearer(client.apiKey),
                                userAgent |-> USER_AGENT,
                                contentType |-> IF Falsy(body) THEN Undefined
                                                ELSE MediaType("application", "json"),
                                timeout |-> client.timeout,
                                body |-> body],
                       !.nreq = @ + 1,
                       !.conn = "open"]

\* _streamRequest(method, endpoint, {body}) up to req.end().
StreamRequest(r, method, endpoint, body) ==
    LET url == URLParse(client.baseUrl)
    IN  IF ~url.ok
          THEN [r EXCEPT !.kind = "stream", !.inner = Rejected(TypeErrorV)]
        ELSE IF ~SchemeAllowed(url)
          THEN [r EXCEPT !.kind = "stream",
                         !.inner = Rejected(ValidationError(
                                      Str("Only https baseUrl is supported"), Undefined))]
        ELSE [r EXCEPT !.kind = "stream",
                       !.req = [method |-> method,
                                hostname |-> url.hostname,
                                path |-> API_PREFIX \o endpoint,
                                query |-> <<>>,
                                port |-> OrElse(url.port, Num(HttpsPort)),
                                authorization |-> Bearer(client.apiKey),
                                userAgent |-> USER_AGENT,
                                contentType |-> MediaType("application", "json"),
                                timeout |-> Undefined,
                                body |-> body],
                       !.nreq = @ + 1,
                       !.conn = "open"]

\* The error the buffered transport rejects with for a status >= 400.
StatusError(status, errorData) ==
    CASE status = 401 -> AuthenticationError(GetError(errorData))
      [] status = 402 -> PaymentRequiredError(GetError(errorData))
      [] status = 404 -> NotFoundError(GetError(errorData))
      [] status = 422 -> ValidationError(GetError(errorData), GetDetail(errorData))
      [] status = 429 -> RateLimitError(GetError(errorData))
      [] OTHER -> VoiceAIError(GetError(errorData), Num(status), GetDetail(errorData))

\* headers['content-type'] || '' starts with 'audio/'
IsAudio(ctype) == ctype.t = "mime" /\ ctype.type = "audio"

\* Variant of WantsBinary that looks at the content type only.
WantsBinary_ContentTypeOnly(r) == IsAudio(r.ctype)

\* contentType.startsWith('audio/') || options.binary
WantsBinary(r) == IsAudio(r.ctype) \/ r.binary

\* Variant of StreamFails that lets the server errors (5xx) through.
StreamFails_ClientErrorsOnly(status) == status >= 400 /\ status < 500

\* res.statusCode >= 400 in the response callback of _streamRequest
StreamFails(status) == status >= 400

\* The 'end' handler of _request.  crash: the handler throws (nothing catches
\* it, the promise is left as it is); parsed: JSON.parse was called.
RequestEnd(r) ==
    LET buffer == Buf(Concat(r.chunks))
        text == BufferToString(buffer)
        json == JSONParse(text)
    IN  IF r.status >= 400
          THEN LET errorData ==
                     IF json.ok THEN json.val
                     ELSE Obj(OrElse(text, Str("Unknown error")), Undefined)
               IN  IF Throws(errorData)
                     THEN [crash |-> TRUE, parsed |-> TRUE, inner |-> r.inner]
                     ELSE [crash |-> FALSE, parsed |-> TRUE,
                           inner |-> Settle(r.inner,
                                            Rejected(StatusError(r.status, errorData)))]
        ELSE IF WantsBinary(r)
          THEN [crash |-> FALSE, parsed |-> FALSE,
                inner |-> Settle(r.inner, Resolved(buffer))]
        ELSE [crash |-> FALSE, parsed |-> TRUE,
              inner |-> Settle(r.inner, Resolved(IF json.ok THEN json.val ELSE text))]

\* Variant of StreamErrorEnd that maps the status to an error kind as the
\* buffered transport does.
StreamErrorEnd_ByStatus(r) ==
    LET text == BufferToString(Buf(Concat(r.chunks)))
        json == JSONParse(text)
    IN  IF json.ok /\ ~Throws(json.val)
          THEN Settle(r.inner, Rejected(StatusError(r.status, json.val)))
          ELSE Settle(r.inner,
                      Rejected(StatusError(r.status, Obj(Str("Request failed"), Undefined))))

\* The 'end' handler of _streamRequest for a status >= 400.
StreamErrorEnd(r) ==
    LET text == BufferToString(Buf(Concat(r.chunks)))
        json == JSONParse(text)
    IN  IF json.ok /\ ~Throws(json.val)
          THEN Settle(r.inner,
                      Rejected(VoiceAIError(GetError(json.val), Num(r.status), Undefined)))
          ELSE Settle(r.inner,
                      Rejected(VoiceAIError(Str("Request failed"), Num(r.status), Undefined)))

\* Variant of IsAuthenticationError that takes every error of the SDK's
\* hierarchy for an authentication failure.
IsAuthenticationError_AnySdkError(e) ==
    e.name \in {"VoiceAIError", "AuthenticationError", "PaymentRequiredError",
                "NotFoundError", "ValidationError", "RateLimitError"}

\* error instanceof AuthenticationError
IsAuthenticationError(e) == e.name = "AuthenticationError"

\* The rest of the public operation once its transport promise has settled
\* (p is the transport promise before this step: the continuation runs only
\* when this step is the one that settled it).  fsok: the file system accepts
\* the write of generateSpeechToFile.
Continue(p, r, fsok) ==
    IF p.st # "pending" \/ r.inner.st = "pending" THEN r
    ELSE CASE r.op \in {"listVoices", "getVoice", "updateVoice", "deleteVoice",
                        "generateSpeech", "streamSpeech"} ->
                [r EXCEPT !.outcome = r.inner]
           [] r.op = "generateSpeechToFile" ->
                IF r.inner.st = "rejected" THEN [r EXCEPT !.outcome = r.inner]
                ELSE IF fsok
                  THEN [r EXCEPT !.file = [exists |-> TRUE, content |-> r.inner.val.bytes],
                                 !.outcome = Resolved(OutputPath)]
                ELSE [r EXCEPT !.outcome = Rejected(FsError)]
           [] r.op = "validateApiKey" ->
                IF r.inner.st = "resolved" THEN [r EXCEPT !.outcome = Resolved(Bool(TRUE))]
                ELSE IF IsAuthenticationError(r.inner.err)
                  THEN [r EXCEPT !.outcome = Resolved(Bool(FALSE))]
                ELSE [r EXCEPT !.outcome = r.inner]
           [] r.op = "getFirstVoices" ->
                IF r.inner.st = "rejected" THEN [r EXCEPT !.outcome = r.inner]
                ELSE IF Throws(r.inner.val) THEN [r EXCEPT !.outcome = Rejected(TypeErrorV)]
                ELSE [r EXCEPT !.outcome = Resolved(EmptyArray)]
           [] r.op = "streamSpeechToFile" ->
                IF r.inner.st = "rejected" THEN [r EXCEPT !.outcome = r.inner]
                ELSE [r EXCEPT !.sink = "open",
                               !.file = [exists |-> TRUE, content |-> <<>>]]
           [] OTHER -> r

-----------------------------------------------------------------------------
(* The public operations, up to the point where they wait for the network. *)

VoiceIds == {Undefined, Str(""), Str("voice-1")}
Updates == {Undefined, [t |-> "updates", name |-> "Renamed"]}
SpeechOptions ==
    {Undefined} \cup {[t |-> "opts", text |-> x] : x \in {Undefined, Str(""), Str("Hello")}}
ListOpts(limit, offset, visibility) ==
    [t |-> "listOpts", limit |-> limit, offset |-> offset, visibility |-> visibility]
ListOptions ==
    {Undefined, ListOpts(Undefined, Undefined, Undefined),
     ListOpts(Num(0), Null, Str("PUBLIC"))}
Counts == {Undefined, Num(3)}

VoiceIdRequired == ValidationError(Str("Voice ID is required"), Undefined)
TextRequired == ValidationError(Str("Text is required"), Undefined)

ListVoicesOp(r, options) ==
    LET o == Default(options, ListOpts(Undefined, Undefined, Undefined))
    IN  Request(r, "GET", "/tts/voices",
                << <<"limit", Default(o.limit, Num(10))>>,
                   <<"offset", Default(o.offset, Num(0))>>,
                   <<"visibility", o.visibility>> >>,
                Undefined, FALSE)

GetVoiceOp(r, voiceId) ==
    IF Falsy(voiceId) THEN [r EXCEPT !.outcome = Rejected(VoiceIdRequired)]
    ELSE Request(r, "GET", "/tts/voice/" \o voiceId.s, <<>>, Undefined, FALSE)

UpdateVoiceOp(r, voiceId, updates) ==
    IF Falsy(voiceId) THEN [r EXCEPT !.outcome = Rejected(VoiceIdRequired)]
    ELSE Request(r, "PATCH", "/tts/voice/" \o voiceId.s, <<>>, updates, FALSE)

DeleteVoiceOp(r, voiceId) ==
    IF Falsy(voiceId) THEN [r EXCEPT !.outcome = Rejected(VoiceIdRequired)]
    ELSE Request(r, "DELETE", "/tts/voice/" \o voiceId.s, <<>>, Undefined, FALSE)

SpeechBody(o) ==
    [t |-> "speech", text |-> o.text, audio_format |-> "mp3", language |-> "en"]

\* Variant of TextMissing that accepts an empty text.
TextMissing_AbsentOnly(options) == options.text.t = "undefined"

\* !text
TextMissing(options) == Falsy(options.text)

\* Destructuring an undefined options argument throws a TypeError.
GenerateSpeechOp(r, options) ==
    IF Throws(options) THEN [r EXCEPT !.outcome = Rejected(TypeErrorV)]
    ELSE IF TextMissing(options) THEN [r EXCEPT !.outcome = Rejected(TextRequired)]
    ELSE Request(r, "POST", "/tts/speech", <<>>, SpeechBody(options), TRUE)

StreamSpeechOp(r, options) ==
    IF Throws(options) THEN [r EXCEPT !.outcome = Rejected(TypeErrorV)]
    ELSE IF TextMissing(options) THEN [r EXCEPT !.outcome = Rejected(TextRequired)]
    ELSE StreamRequest(r, "POST", "/tts/speech/stream", SpeechBody(options))

-----------------------------------------------------------------------------
(* Actions: construction and public calls.                                 *)

Calls == DOMAIN call

CanCall(c) == ~crashed /\ client.exists /\ call[c].op = "none"

Put(c, r) == call' = [call EXCEPT ![c] = r] /\ UNCHANGED <<client, ctor, crashed>>

\* A public call: the operation runs to its first suspension, and a transport
\* promise that is already rejected is propagated at once.
Invoke(c, r) == Put(c, Continue(Pending, r, TRUE))

\* ctor keeps the arguments the constructor was called with and how it ended.
NoCtor == [apiKey |-> Undefined, baseUrl |-> Undefined, timeout |-> Undefined, done |-> Pending]

NewClient ==
    /\ ctor.done.st = "pending"
    /\ \E k \in ApiKeys, o \in ClientOptions :
          LET made == Construct(k, o[1], o[2])
          IN  /\ ctor' = [apiKey |-> k, baseUrl |-> o[1], timeout |-> o[2],
                          done |-> made.done]
              /\ client' = made.obj
    /\ UNCHANGED <<call, crashed>>

ListVoices(c) ==
    /\ CanCall(c)
    /\ \E o \in ListOptions : Invoke(c, ListVoicesOp(Started("listVoices", o), o))

GetVoice(c) ==
    /\ CanCall(c)
    /\ \E v \in VoiceIds : Invoke(c, GetVoiceOp(Started("getVoice", v), v))

UpdateVoice(c) ==
    /\ CanCall(c)
    /\ \E v \in VoiceIds, u \in Updates :
          Invoke(c, UpdateVoiceOp(Started("updateVoice", v), v, u))

DeleteVoice(c) ==
    /\ CanCall(c)
    /\ \E v \in VoiceIds : Invoke(c, DeleteVoiceOp(Started("deleteVoice", v), v))

GenerateSpeech(c) ==
    /\ CanCall(c)
    /\ \E o \in SpeechOptions : Invoke(c, GenerateSpeechOp(Started("generateSpeech", o), o))

GenerateSpeechToFile(c) ==
    /\ CanCall(c)
    /\ \E o \in SpeechOptions :
          Invoke(c, GenerateSpeechOp(Started("generateSpeechToFile", o), o))

StreamSpeech(c) ==
    /\ CanCall(c)
    /\ \E o \in SpeechOptions : Invoke(c, StreamSpeechOp(Started("streamSpeech", o), o))

StreamSpeechToFile(c) ==
    /\ CanCall(c)
    /\ \E o \in SpeechOptions :
          Invoke(c, StreamSpeechOp(Started("streamSpeechToFile", o), o))

ValidateApiKey(c) ==
    /\ CanCall(c)
    /\ Invoke(c, ListVoicesOp(Started("validateApiKey", Undefined),
                              ListOpts(Num(1), Undefined, Undefined)))

GetFirstVoices(c) ==
    /\ CanCall(c)
    /\ \E n \in Counts :
          Invoke(c, ListVoicesOp(Started("getFirstVoices", n),
                                 ListOpts(Default(n, Num(10)), Undefined, Undefined)))

-----------------------------------------------------------------------------
(* Actions: the events of a request.                                       *)

Statuses == {200, 301, 401, 402, 404, 422, 429, 500}
ContentTypes == {Undefined, MediaType("audio", "mpeg"), MediaType("application", "json")}

TimeoutError == VoiceAIError(Str("Request timeout"), Str("TIMEOUT"), Undefined)

Piping(r) == r.kind = "stream" /\ r.op = "streamSpeechToFile" /\ r.inner.st = "resolved"

\* Variant of Finish that resolves as soon as the source has ended.
Finish_OnSourceEnd(r) ==
    IF r.sink = "open" /\ r.srcEnded
      THEN [r EXCEPT !.sink = IF r.sinkBuf = <<>> THEN "finished" ELSE @,
                     !.outcome = Settle(r.outcome, Resolved(OutputPath))]
      ELSE r

\* The sink has written everything after end() was called: 'finish'.
Finish(r) ==
    IF r.sink = "open" /\ r.srcEnded /\ r.sinkBuf = <<>>
      THEN [r EXCEPT !.sink = "finished",
                     !.outcome = Settle(r.outcome, Resolved(OutputPath))]
      ELSE r

\* The response callback.  _request starts collecting the body; _streamRequest
\* collects it for a status >= 400 and resolves with the response otherwise.
OnResponse(c) ==
    LET r == call[c]
    IN  /\ ~crashed
        /\ r.conn = "open"
        /\ \E status \in Statuses :
              LET got == [r EXCEPT !.status = status]
              IN  IF r.kind = "buffered" \/ StreamFails(status)
                    THEN Put(c, [got EXCEPT !.conn = "body"])
                    ELSE Put(c, Continue(r.inner,
                                         [got EXCEPT !.inner = Settle(@, Resolved(ResStream)),
                                                     !.conn = IF r.op = "streamSpeechToFile"
                                                                THEN "body" ELSE "handed"],
                                         TRUE))

\* Variant of OnData whose pipe keeps reading when the sink is full.
OnData_NoPause(c) ==
    LET r == call[c]
    IN  /\ ~crashed
        /\ r.conn = "body"
        /\ Len(r.chunks) < MaxChunks
        /\ Piping(r) => r.sink = "open"
        /\ \E chunk \in Chunks :
              IF Piping(r)
                THEN Put(c, [r EXCEPT !.chunks = Append(@, chunk),
                                      !.sinkBuf = Append(@, chunk)])
                ELSE Put(c, [r EXCEPT !.chunks = Append(@, chunk)])

\* A 'data' event: the collecting handlers push the chunk; the pipe writes it
\* to the sink and pauses the response when the sink reports it is full.
OnData(c) ==
    LET r == call[c]
    IN  /\ ~crashed
        /\ r.conn = "body"
        /\ Len(r.chunks) < MaxChunks
        /\ Piping(r) => r.sink = "open" /\ ~r.paused
        /\ \E chunk \in Chunks :
              IF Piping(r)
                THEN Put(c, [r EXCEPT !.chunks = Append(@, chunk),
                                      !.sinkBuf = Append(@, chunk),
                                      !.paused = Len(r.sinkBuf) + 1 >= SinkHighWater])
                ELSE Put(c, [r EXCEPT !.chunks = Append(@, chunk)])

\* The 'end' event of the response.  The content-type header of the response
\* enters the state here, where _request reads it (for a status < 400).
OnEnd(c) ==
    LET r == call[c]
    IN  /\ ~crashed
        /\ r.conn = "body"
        /\ Piping(r) => r.sink = "open" /\ ~r.paused
        /\ \E fsok \in BOOLEAN,
              ctype \in IF r.kind = "buffered" /\ r.status < 400
                          THEN ContentTypes ELSE {Undefined} :
              IF r.kind = "buffered"
                THEN LET h == [r EXCEPT !.ctype = ctype]
                         e == RequestEnd(h)
                     IN  /\ call' = [call EXCEPT ![c] =
                                        Continue(r.inner,
                                                 [h EXCEPT !.conn = "ended",
                                                           !.parsed = e.parsed,
                                                           !.inner = e.inner],
                                                 fsok)]
                         /\ crashed' = e.crash
                         /\ UNCHANGED <<client, ctor>>
              ELSE IF Piping(r)
                THEN Put(c, Finish([r EXCEPT !.conn = "ended", !.srcEnded = TRUE]))
              ELSE Put(c, Continue(r.inner,
                                   [r EXCEPT !.conn = "ended",
                                             !.parsed = TRUE,
                                             !.inner = StreamErrorEnd(r)],
                                   fsok))

\* The 'error' event of the request: a network failure, or the hang-up that
\* follows req.destroy().  Once the response is piped the failure also ends
\* the response, whose 'error' listener rejects.
OnError(c) ==
    LET r == call[c]
    IN  /\ ~crashed
        /\ r.conn \in {"open", "body", "destroyed"}
        /\ LET e == IF r.conn = "destroyed" THEN HangUp ELSE NetError
               failed == [r EXCEPT !.conn = "closed", !.inner = Settle(@, Rejected(e))]
           IN  IF Piping(r)
                 THEN Put(c, [failed EXCEPT !.outcome = Settle(@, Rejected(Aborted))])
                 ELSE Put(c, Continue(r.inner, failed, TRUE))

\* Variant of OnTimeout that sends the request again instead of rejecting.
OnTimeout_Retry(c) ==
    LET r == call[c]
    IN  /\ ~crashed
        /\ r.kind = "buffered"
        /\ r.conn \in {"open", "body"}
        /\ Put(c, [r EXCEPT !.conn = "open", !.nreq = @ + 1, !.status = 0, !.chunks = <<>>])

\* The 'timeout' event of the request; only _request asks for a timeout.
OnTimeout(c) ==
    LET r == call[c]
    IN  /\ ~crashed
        /\ r.kind = "buffered"
        /\ r.conn \in {"open", "body"}
        /\ Put(c, Continue(r.inner,
                           [r EXCEPT !.conn = "destroyed",
                                     !.inner = Settle(@, Rejected(TimeoutError))],
                           TRUE))

\* The connection closes before the body is complete: the response is
\* destroyed and emits 'error' only if it has a listener (the pipe's).
OnAborted(c) ==
    LET r == call[c]
    IN  /\ ~crashed
        /\ r.conn = "body"
        /\ IF Piping(r)
             THEN Put(c, [r EXCEPT !.conn = "closed",
                                   !.outcome = Settle(@, Rejected(Aborted))])
             ELSE Put(c, [r EXCEPT !.conn = "closed"])

\* The sink writes its oldest chunk to the file; when it has emptied it
\* emits 'drain' (the pipe resumes the response) and, after end(), 'finish'.
SinkFlush(c) ==
    LET r == call[c]
    IN  /\ ~crashed
        /\ r.sink = "open"
        /\ r.sinkBuf # <<>>
        /\ Put(c, Finish([r EXCEPT !.file.content = @ \o Head(r.sinkBuf),
                                   !.sinkBuf = Tail(@),
                                   !.paused = IF Len(r.sinkBuf) = 1 THEN FALSE ELSE @]))

\* Variant of SinkError that removes the partial file before rejecting.
SinkError_Unlink(c) ==
    LET r == call[c]
    IN  /\ ~crashed
        /\ r.sink = "open"
        /\ Put(c, [r EXCEPT !.sink = "errored",
                            !.file = NoFile,
                            !.outcome = Settle(@, Rejected(FsError))])

\* The sink fails (disk full, permission denied): the pipe is undone and the
\* 'error' listener rejects.
SinkError(c) ==
    LET r == call[c]
    IN  /\ ~crashed
        /\ r.sink = "open"
        /\ Put(c, [r EXCEPT !.sink = "errored",
                            !.outcome = Settle(@, Rejected(FsError))])

-----------------------------------------------------------------------------
(* The command-line tool (scripts/tts.js).                                 *)

\* What the process has printed and how it ended.  pc: "none" (the tool is
\* not run), "start", "waiting" (main is suspended on the SDK call), "exited".
NoCli ==
    [pc |-> "none", text |-> Undefined, voice |-> Undefined, stream |-> FALSE,
     help |-> FALSE, key |-> Undefined, stdout |-> <<>>, stderr |-> <<>>, exit |-> 0]

\* The values parseArgs can leave in opts.text and opts.voice: a flag whose
\* value is missing or empty leaves the option undefined.
CliTexts == {Undefined, Str("Hello")}
CliVoices == {Undefined, Str("Ellie"), Str("nobody"), Str("constructor")}
EnvKeys == {Undefined, Str(""), Str("sk-live")}
EnvFileKeys == {Undefined, Str("sk-file")}

\* The names voices.json defines, and the entry of each.
VoiceNames == {"ellie"}
VoiceEntry(name) == [t |-> "voice", voice_id |-> Str("id-of-" \o name)]

\* Property names every object inherits from Object.prototype.
InheritedNames == {"constructor", "__proto__"}
InheritedValue == [t |-> "inherited"]

\* opts.voice.toLowerCase()
ToLowerCase(v) == IF v = Str("Ellie") THEN Str("ellie") ELSE v

\* voiceMap[voiceName]: a property read on a plain object.
VoiceMapGet(voiceName) ==
    IF voiceName.s \in VoiceNames THEN VoiceEntry(voiceName.s)
    ELSE IF voiceName.s \in InheritedNames THEN InheritedValue
    ELSE Undefined

\* voiceEntry.voice_id
VoiceIdOf(voiceEntry) == IF voiceEntry.t = "voice" THEN voiceEntry.voice_id ELSE Undefined

\* process.env.VOICE_AI_API_KEY, else the key of the .env file
ResolveApiKey(envKey, fileKey) == IF Falsy(envKey) THEN fileKey ELSE envKey

\* console.error(message); process.exit(1)
ExitError(k, message) ==
    [k EXCEPT !.pc = "exited", !.stderr = Append(@, message), !.exit = 1]

SavedLine == Str("Saved to out.mp3")

\* main after its await, once the SDK call r has settled: the success line, or
\* the catch handler of main().  An exception nothing caught ends the process
\* with the error on standard error and status 1; a process with a pending
\* call and no connection left has nothing to wait for and ends with status 0.
CliResume(k, r, crash) ==
    IF k.pc # "waiting" THEN k
    ELSE IF crash THEN ExitError(k, TypeErrorV.message)
    ELSE IF r.outcome.st = "resolved"
      THEN [k EXCEPT !.pc = "exited", !.stdout = Append(@, SavedLine), !.exit = 0]
    ELSE IF r.outcome.st = "rejected" THEN ExitError(k, r.outcome.err.message)
    ELSE IF r.conn = "closed" THEN [k EXCEPT !.pc = "exited", !.exit = 0]
    ELSE k

\* One run of the tool up to the await of main (or to its exit).
CliMain ==
    /\ cli.pc = "start"
    /\ \E text \in CliTexts, voice \in CliVoices, stream \in BOOLEAN, help \in BOOLEAN,
          envKey \in EnvKeys, fileKey \in EnvFileKeys :
          LET apiKey == ResolveApiKey(envKey, fileKey)
              run == [cli EXCEPT !.text = text, !.voice = voice, !.stream = stream,
                                 !.help = help, !.key = apiKey]
              made == Construct(apiKey, Undefined, Undefined)
              voiceName == IF Falsy(voice) THEN Undefined ELSE ToLowerCase(voice)
              voiceEntry == IF Falsy(voiceName) THEN Undefined ELSE VoiceMapGet(voiceName)
              options == [t |-> "opts", text |-> text, voice_id |-> VoiceIdOf(voiceEntry)]
              started == Started(IF stream THEN "streamSpeechToFile"
                                           ELSE "generateSpeechToFile", options)
          IN  IF help
                THEN /\ cli' = [run EXCEPT !.pc = "exited",
                                           !.stdout = Append(@, Str("Usage")),
                                           !.exit = 0]
                     /\ UNCHANGED <<client, ctor, call, crashed>>
              ELSE IF Falsy(text)
                THEN /\ cli' = ExitError(run, Str("Error: --text is required"))
                     /\ UNCHANGED <<client, ctor, call, crashed>>
              ELSE IF Falsy(apiKey)
                THEN /\ cli' = ExitError(run, Str("Error: VOICE_AI_API_KEY is required (environment or .env file)"))
                     /\ UNCHANGED <<client, ctor, call, crashed>>
              ELSE /\ client' = made.obj
                   /\ ctor' = [apiKey |-> apiKey, baseUrl |-> Undefined,
                               timeout |-> Undefined, done |-> made.done]
                   /\ IF ~Falsy(voiceName) /\ Falsy(voiceEntry)
                        THEN /\ cli' = ExitError(run, Str("Error: Unknown voice"))
                             /\ UNCHANGED <<call, crashed>>
                        ELSE /\ call' =
                                  [call EXCEPT ![1] =
                                     (Continue(Pending,
                                               IF stream
                                                 THEN StreamSpeechOp(started, options)
                                                 ELSE GenerateSpeechOp(started, options),
                                               TRUE))']
                             /\ cli' = CliResume(
                                          [run EXCEPT !.pc = "waiting",
                                                      !.stdout = Append(@, Str("Generating speech..."))],
                                          call'[1], FALSE)
                             /\ UNCHANGED crashed

\* A network or file event of the call while main waits for it, followed by
\* what main does if the event settled the call.
CliEvent(Event) ==
    /\ cli.pc = "waiting"
    /\ Event
    /\ cli' = CliResume(cli, call'[1], crashed')

InitCli ==
    /\ client = NoClient
    /\ ctor = NoCtor
    /\ call = [c \in {1} |-> NoCall]
    /\ crashed = FALSE
    /\ cli = [NoCli EXCEPT !.pc = "start"]

NextCli ==
    \/ CliMain
    \/ \E c \in Calls : CliEvent(OnResponse(c))
    \/ \E c \in Calls : CliEvent(OnData(c))
    \/ \E c \in Calls : CliEvent(OnEnd(c))
    \/ \E c \in Calls : CliEvent(OnError(c))
    \/ \E c \in Calls : CliEvent(OnTimeout(c))
    \/ \E c \in Calls : CliEvent(OnAborted(c))
    \/ \E c \in Calls : CliEvent(SinkFlush(c))
    \/ \E c \in Calls : CliEvent(SinkError(c))

SpecCli == InitCli /\ [][NextCli]_vars

-----------------------------------------------------------------------------
(* Specifications.                                                         *)

Init ==
    /\ client = NoClient
    /\ ctor = NoCtor
    /\ call = [c \in {1} |-> NoCall]
    /\ crashed = FALSE
    /\ cli = NoCli

Next ==
    \/ NewClient /\ UNCHANGED cli
    \/ \E c \in Calls : ListVoices(c) /\ UNCHANGED cli
    \/ \E c \in Calls : GetVoice(c) /\ UNCHANGED cli
    \/ \E c \in Calls : UpdateVoice(c) /\ UNCHANGED cli
    \/ \E c \in Calls : DeleteVoice(c) /\ UNCHANGED cli
    \/ \E c \in Calls : GenerateSpeech(c) /\ UNCHANGED cli
    \/ \E c \in Calls : GenerateSpeechToFile(c) /\ UNCHANGED cli
    \/ \E c \in Calls : StreamSpeech(c) /\ UNCHANGED cli
    \/ \E c \in Calls : StreamSpeechToFile(c) /\ UNCHANGED cli
    \/ \E c \in Calls : ValidateApiKey(c) /\ UNCHANGED cli
    \/ \E c \in Calls : GetFirstVoices(c) /\ UNCHANGED cli
    \/ \E c \in Calls : OnResponse(c) /\ UNCHANGED cli
    \/ \E c \in Calls : OnData(c) /\ UNCHANGED cli
    \/ \E c \in Calls : OnEnd(c) /\ UNCHANGED cli
    \/ \E c \in Calls : OnError(c) /\ UNCHANGED cli
    \/ \E c \in Calls : OnTimeout(c) /\ UNCHANGED cli
    \/ \E c \in Calls : OnAborted(c) /\ UNCHANGED cli
    \/ \E c \in Calls : SinkFlush(c) /\ UNCHANGED cli
    \/ \E c \in Calls : SinkError(c) /\ UNCHANGED cli

Spec == Init /\ [][Next]_vars

\* The buffered transport called directly with a query-parameter mapping, on
\* a client with the default options.
ParamValues == {Undefined, Null, Num(0), Num(10), Bool(FALSE), Str(""), Str("PUBLIC")}
ParamMappings ==
    { << <<"limit", a>>, <<"offset", b>>, <<"visibility", v>> >> :
        a \in ParamValues, b \in ParamValues, v \in ParamValues }

InitQuery ==
    /\ client = Construct(Str("sk-live"), Undefined, Undefined).obj
    /\ ctor = [apiKey |-> Str("sk-live"), baseUrl |-> Undefined, timeout |-> Undefined,
               done |-> Resolved(Undefined)]
    /\ call = [c \in {1} |-> NoCall]
    /\ crashed = FALSE
    /\ cli = NoCli

RawRequest(c) ==
    /\ CanCall(c)
    /\ \E params \in ParamMappings :
          Invoke(c, Request(Started("_request", Undefined), "GET", "/tts/voices",
                            params, Undefined, FALSE))

NextQuery == \E c \in Calls : RawRequest(c) /\ UNCHANGED cli

SpecQuery == InitQuery /\ [][NextQuery]_vars

\* Two calls in flight on one client with the default options.  The servers
\* answer from smaller sets than in Spec: ConcStatuses, and bodies of at most
\* ConcChunks chunks.
ConcStatuses == {0, 200, 401}
ConcChunks == 1

ConcAnswers(cs) ==
    \A c \in DOMAIN cs :
        /\ cs[c].status \in ConcStatuses
        /\ Len(cs[c].chunks) <= ConcChunks

ConcStep(Action) == Action /\ UNCHANGED cli /\ ConcAnswers(call')

InitConc ==
    /\ client = Construct(Str("sk-live"), Undefined, Undefined).obj
    /\ ctor = [apiKey |-> Str("sk-live"), baseUrl |-> Undefined, timeout |-> Undefined,
               done |-> Resolved(Undefined)]
    /\ call = [c \in {1, 2} |-> NoCall]
    /\ crashed = FALSE
    /\ cli = NoCli

NextConc ==
    \/ \E c \in Calls : ConcStep(ListVoices(c))
    \/ \E c \in Calls : ConcStep(StreamSpeechToFile(c))
    \/ \E c \in Calls : ConcStep(OnResponse(c))
    \/ \E c \in Calls : ConcStep(OnData(c))
    \/ \E c \in Calls : ConcStep(OnEnd(c))
    \/ \E c \in Calls : ConcStep(OnError(c))
    \/ \E c \in Calls : ConcStep(OnTimeout(c))
    \/ \E c \in Calls : ConcStep(OnAborted(c))
    \/ \E c \in Calls : ConcStep(SinkFlush(c))
    \/ \E c \in Calls : ConcStep(SinkError(c))

SpecConc == InitConc /\ [][NextConc]_vars

-----------------------------------------------------------------------------
(* Properties.                                                             *)

RECURSIVE Offset(_, _)
\* The number of tokens in the first i - 1 chunks of cs.
Offset(cs, i) == IF i <= 1 THEN 0 ELSE Offset(cs, i - 1) + Len(cs[i - 1])

\* b holds the chunks cs one after the other, in order, and nothing else.
IsConcatOf(b, cs) ==
    /\ Len(b) = Offset(cs, Len(cs) + 1)
    /\ \A i \in 1..Len(cs) : SubSeq(b, Offset(cs, i) + 1, Offset(cs, i + 1)) = cs[i]

\* The body received by call r, decoded and parsed.
BodyText(r) == Text(Concat(r.chunks))
BodyJSON(r) == JSONParse(BodyText(r))

\* A buffered call whose response has ended.
BufferedEnded(r) == r.kind = "buffered" /\ r.conn = "ended"

KindOfStatus(status) ==
    CASE status = 401 -> "AuthenticationError"
      [] status = 402 -> "PaymentRequiredError"
      [] status = 404 -> "NotFoundError"
      [] status = 422 -> "ValidationError"
      [] status = 429 -> "RateLimitError"
      [] OTHER -> "VoiceAIError"

\* C1: every buffered response with a status >= 400 rejects the call with the
\* error kind its status fixes (401, 402, 404, 422, 429 have their own kind,
\* every other status a generic VoiceAIError carrying the status as its
\* code), and a 422 carries the detail member of the server's JSON body.
C1_ErrorKindByStatus ==
    \A c \in Calls :
        LET r == call[c]
        IN  (BufferedEnded(r) /\ r.status >= 400) =>
                /\ r.inner.st = "rejected"
                /\ r.inner.err.name = KindOfStatus(r.status)
                /\ (r.status = 422 /\ BodyJSON(r).ok /\ BodyJSON(r).val.t = "obj"
                       /\ BodyJSON(r).val.detail # Undefined)
                      => r.inner.err.details = BodyJSON(r).val.detail
                /\ KindOfStatus(r.status) = "VoiceAIError"
                      => r.inner.err.code = Num(r.status)

\* The part of C1 that the code keeps: the same, for every body that is not
\* the JSON text null.
C1_ErrorKindUnlessNullBody ==
    \A c \in Calls :
        LET r == call[c]
        IN  (BufferedEnded(r) /\ r.status >= 400 /\ Concat(r.chunks) # <<"null">>) =>
                /\ r.inner.st = "rejected"
                /\ r.inner.err.name = KindOfStatus(r.status)
                /\ (r.status = 422 /\ BodyJSON(r).ok /\ BodyJSON(r).val.t = "obj"
                       /\ BodyJSON(r).val.detail # Undefined)
                      => r.inner.err.details = BodyJSON(r).val.detail
                /\ KindOfStatus(r.status) = "VoiceAIError"
                      => r.inner.err.code = Num(r.status)

\* C2: a buffered response with a status < 400 resolves with the received
\* chunks concatenated in arrival order, without JSON decoding, when the
\* content type is audio/* or the caller asked for binary; otherwise with the
\* parsed JSON value when the body is valid JSON, and with the raw body text
\* when it is not.
C2_SuccessBody ==
    \A c \in Calls :
        LET r == call[c]
        IN  (BufferedEnded(r) /\ r.status < 400) =>
                /\ r.inner.st = "resolved"
                /\ IF (r.ctype.t = "mime" /\ r.ctype.type = "audio") \/ r.binary
                     THEN /\ r.inner.val.t = "buf"
                          /\ IsConcatOf(r.inner.val.bytes, r.chunks)
                          /\ ~r.parsed
                   ELSE IF BodyJSON(r).ok
                     THEN r.inner.val = BodyJSON(r).val
                   ELSE /\ r.inner.val.t = "text"
                        /\ IsConcatOf(r.inner.val.toks, r.chunks)

\* C2 witness: a JSON-typed answer to a binary request, resolved with the two
\* different chunks it was sent in.
C2_Witness ==
    \E c \in Calls :
        LET r == call[c]
        IN  /\ BufferedEnded(r) /\ r.status = 200 /\ r.binary
            /\ r.ctype = MediaType("application", "json")
            /\ Len(r.chunks) = 2 /\ r.chunks[1] # r.chunks[2]
            /\ r.inner.st = "resolved"

\* C3: a buffered response that has ended yields an error when its status is
\* not 2xx (3xx included) and a success value when it is 2xx.
C3_Non2xxIsError ==
    \A c \in Calls :
        LET r == call[c]
        IN  BufferedEnded(r) =>
                IF r.status >= 200 /\ r.status < 300
                  THEN r.inner.st = "resolved"
                  ELSE r.inner.st = "rejected"

\* The part of C3 that the code keeps: a settled transport promise never
\* changes again.
C3_FirstOutcomeFinal ==
    [][\A c \in Calls :
          call[c].inner.st # "pending" => call'[c].inner = call[c].inner]_vars

\* C4: a constructor called with an empty or absent API key throws an
\* AuthenticationError, leaves no client, and nothing is ever requested.
C4_NoClientWithoutKey ==
    (ctor.done.st # "pending" /\ Falsy(ctor.apiKey)) =>
        /\ ctor.done.st = "rejected"
        /\ ctor.done.err.name = "AuthenticationError"
        /\ ~client.exists
        /\ \A c \in Calls : call[c].op = "none" /\ call[c].nreq = 0

C4_Witness == ctor.done.st = "rejected" /\ ctor.apiKey = Str("")

\* C5: on a client whose base URL has a scheme other than https, every call
\* that reaches _request or _streamRequest fails with a ValidationError and
\* no request is opened.
C5_HttpsOnly ==
    \A c \in Calls :
        LET r == call[c]
            url == URLParse(client.baseUrl)
        IN  (client.exists /\ url.ok /\ url.protocol # "https:" /\ r.kind # "none") =>
                /\ r.inner.st = "rejected"
                /\ r.inner.err.name = "ValidationError"
                /\ r.outcome = r.inner
                /\ r.nreq = 0
                /\ r.conn = "none"

C5_Witness ==
    \E c \in Calls :
        /\ URLParse(client.baseUrl).protocol = "http:"
        /\ call[c].kind = "stream"
        /\ call[c].outcome.st = "rejected"

\* The call r was made with its required field missing or empty.
RequiredFieldMissing(r) ==
    \/ /\ r.op \in {"generateSpeech", "generateSpeechToFile", "streamSpeech",
                    "streamSpeechToFile"}
       /\ r.arg.t = "opts"
       /\ Falsy(r.arg.text)
    \/ /\ r.op \in {"getVoice", "updateVoice", "deleteVoice"}
       /\ Falsy(r.arg)

\* C6: a public operation called with its required field (text, voice id)
\* missing or empty fails with a ValidationError, requests nothing and writes
\* no file.
C6_RequiredField ==
    \A c \in Calls :
        LET r == call[c]
        IN  RequiredFieldMissing(r) =>
                /\ r.outcome.st = "rejected"
                /\ r.outcome.err.name = "ValidationError"
                /\ r.nreq = 0
                /\ r.conn = "none"
                /\ ~r.file.exists
                /\ r.sink = "none"

C6_Witness ==
    \E c \in Calls :
        /\ call[c].op = "generateSpeechToFile"
        /\ call[c].arg.t = "opts"
        /\ call[c].arg.text = Str("")
        /\ call[c].outcome.st = "rejected"

\* C7: streamSpeechToFile resolves, with the output path, only once the file
\* sink has finished after a clean end of a response with a status < 400,
\* and the file then holds exactly the chunks received, in arrival order; a
\* sink that was ended and has not failed still has chunks left to write.
C7_FileHoldsStream ==
    \A c \in Calls :
        LET r == call[c]
        IN  r.op = "streamSpeechToFile" =>
                /\ r.outcome.st = "resolved" =>
                      /\ r.outcome.val = OutputPath
                      /\ r.sink = "finished"
                /\ r.sink = "finished" =>
                      /\ r.outcome = Resolved(OutputPath)
                      /\ r.status < 400
                      /\ r.conn = "ended"
                      /\ r.sinkBuf = <<>>
                      /\ r.file.exists
                      /\ IsConcatOf(r.file.content, r.chunks)
                /\ (r.conn = "ended" /\ r.status < 400 /\ r.sink = "open") =>
                      r.sinkBuf # <<>>

C7_Witness ==
    \E c \in Calls :
        LET r == call[c]
        IN  /\ r.op = "streamSpeechToFile"
            /\ r.outcome = Resolved(OutputPath)
            /\ Len(r.chunks) = 2
            /\ r.chunks[1] # r.chunks[2]
            /\ r.file.content = r.chunks[1] \o r.chunks[2]

\* C8: when streamSpeechToFile is answered with a status >= 400 the file is
\* never opened or written and the call never resolves; once the error body
\* has ended the call is rejected with a generic VoiceAIError carrying the
\* status; the file sink exists only after the streaming request has
\* resolved with a status < 400.
C8_ErrorStatusNoFile ==
    \A c \in Calls :
        LET r == call[c]
        IN  r.op = "streamSpeechToFile" =>
                /\ r.status >= 400 =>
                      /\ ~r.file.exists
                      /\ r.file.content = <<>>
                      /\ r.sink = "none"
                      /\ r.outcome.st # "resolved"
                /\ (r.status >= 400 /\ r.conn = "ended") =>
                      /\ r.outcome.st = "rejected"
                      /\ r.outcome.err.name = "VoiceAIError"
                      /\ r.outcome.err.code = Num(r.status)
                /\ (r.sink # "none" \/ r.file.exists) =>
                      /\ r.inner = Resolved(ResStream)
                      /\ r.status \in Statuses
                      /\ r.status < 400

C8_Witness ==
    \E c \in Calls :
        LET r == call[c]
        IN  /\ r.op = "streamSpeechToFile"
            /\ r.status = 500
            /\ r.conn = "ended"
            /\ r.chunks # <<>>
            /\ r.outcome.st = "rejected"

\* C9: validateApiKey issues one GET of the voice list with limit 1; it
\* returns true when the probe succeeds, false when the probe fails with an
\* AuthenticationError (a 401 answer), and rejects with the probe's own error
\* for every other failure.
C9_ValidateApiKey ==
    \A c \in Calls :
        LET r == call[c]
        IN  r.op = "validateApiKey" =>
                /\ r.nreq <= 1
                /\ r.nreq = 1 =>
                      /\ r.req.method = "GET"
                      /\ r.req.path = "/api/v1/tts/voices"
                      /\ \E i \in 1..Len(r.req.query) : r.req.query[i] = <<"limit", "1">>
                /\ r.inner.st = "pending" => r.outcome.st = "pending"
                /\ r.inner.st = "resolved" => r.outcome = Resolved(Bool(TRUE))
                /\ (r.inner.st = "rejected" /\ r.inner.err.name = "AuthenticationError") =>
                      /\ r.outcome = Resolved(Bool(FALSE))
                      /\ r.status = 401
                /\ (r.inner.st = "rejected" /\ r.inner.err.name # "AuthenticationError") =>
                      r.outcome = Rejected(r.inner.err)

C9_Witness ==
    \E c \in Calls :
        /\ call[c].op = "validateApiKey"
        /\ call[c].status = 401
        /\ call[c].outcome = Resolved(Bool(FALSE))

\* The text a query parameter's literal value is written as.
LiteralOf(v) ==
    CASE v = Num(0) -> "0"
      [] v = Num(10) -> "10"
      [] v = Bool(FALSE) -> "false"
      [] v = Str("") -> ""
      [] v = Str("PUBLIC") -> "PUBLIC"
      [] OTHER -> "?"

\* C10: the query of a buffered request holds exactly the entries of the
\* mapping whose value is neither null nor undefined, in the mapping's order,
\* each with its literal value (0, false and the empty string are kept).
C10_QueryOmitsOnlyNullish ==
    \A c \in Calls :
        LET r == call[c]
            kept == SelectSeq(r.params, LAMBDA e : e[2] # Null /\ e[2] # Undefined)
        IN  (r.kind = "buffered" /\ r.nreq = 1) =>
                /\ Len(r.req.query) = Len(kept)
                /\ \A i \in 1..Len(kept) :
                      r.req.query[i] = <<kept[i][1], LiteralOf(kept[i][2])>>
                /\ \A j \in 1..Len(r.req.query) :
                      \E i \in 1..Len(r.params) :
                          /\ r.params[i][1] = r.req.query[j][1]
                          /\ r.params[i][2] \notin {Null, Undefined}

C10_Witness ==
    \E c \in Calls :
        /\ call[c].params = << <<"limit", Num(0)>>, <<"offset", Null>>, <<"visibility", Str("")>> >>
        /\ call[c].req.query = << <<"limit", "0">>, <<"visibility", "">> >>

\* C11: a timeout on a pending buffered request destroys the request and
\* rejects the call with a VoiceAIError whose code is 'TIMEOUT', and nothing
\* that happens afterwards (the error event of the destroyed request
\* included) changes that outcome.
C11_TimeoutIsFinal ==
    [][\A c \in Calls :
          LET r == call[c]
              n == call'[c]
          IN  /\ (r.conn # "destroyed" /\ n.conn = "destroyed") =>
                    /\ r.kind = "buffered"
                    /\ r.inner.st = "pending"
                    /\ n.inner.st = "rejected"
                    /\ n.inner.err.name = "VoiceAIError"
                    /\ n.inner.err.code = Str("TIMEOUT")
                    /\ n.outcome = n.inner
              /\ (r.inner.st = "rejected" /\ r.inner.err.code = Str("TIMEOUT")) =>
                    /\ n.inner = r.inner
                    /\ n.outcome = r.outcome
                    /\ n.conn \in {"destroyed", "closed"}]_vars

\* C11 witness: the destroyed request has emitted its error event and the
\* call is still rejected with the timeout.
C11_Witness ==
    \E c \in Calls :
        /\ call[c].conn = "closed"
        /\ call[c].chunks # <<>>
        /\ call[c].inner.st = "rejected"
        /\ call[c].inner.err.code = Str("TIMEOUT")
        /\ call[c].outcome = call[c].inner

SdkErrorNames ==
    {"VoiceAIError", "AuthenticationError", "PaymentRequiredError", "NotFoundError",
     "ValidationError", "RateLimitError"}

\* C12: a call whose request failed at the network level is rejected with a
\* VoiceAIError (a typed error of the SDK), not with the underlying error.
C12_NetworkErrorIsWrapped ==
    \A c \in Calls :
        LET r == call[c]
        IN  (r.conn = "closed" /\ r.inner.st = "rejected") =>
                r.inner.err.name = "VoiceAIError"

\* C13: a public operation calls https.request at most once, whatever
\* happens to the request; it calls it once exactly when it has a request.
C13_AtMostOneRequest ==
    \A c \in Calls :
        LET r == call[c]
        IN  /\ r.nreq <= 1
            /\ r.nreq = 1 <=> r.conn # "none"

\* C13 witness: a request that failed, and no second one.
C13_Witness ==
    \E c \in Calls :
        /\ call[c].op = "validateApiKey"
        /\ call[c].conn = "closed"
        /\ call[c].outcome.st = "rejected"
        /\ call[c].nreq = 1

\* The message cannot be read from the error body: the body is not JSON, or
\* it is JSON whose value has no properties to read.
NoMessageInBody(r) == ~BodyJSON(r).ok \/ BodyJSON(r).val \in {Null, Undefined}

\* C14: the streaming transport never resolves a response with a status >= 400
\* with the stream: it stays pending while the error body arrives and at its
\* end rejects with a generic VoiceAIError whose code is the status, with the
\* message 'Request failed' when the message cannot be read from the body.  A
\* response with a status < 400 resolves the transport with the response
\* stream from the response on, before the SDK has read any chunk of it.
C14_StreamTransport ==
    \A c \in Calls :
        LET r == call[c]
        IN  (r.kind = "stream" /\ r.status # 0) =>
                IF r.status >= 400
                  THEN /\ r.inner.st # "resolved"
                       /\ r.outcome.st # "resolved"
                       /\ r.conn = "body" => r.inner.st = "pending"
                       /\ r.conn = "ended" =>
                             /\ r.inner.st = "rejected"
                             /\ r.inner.err.name = "VoiceAIError"
                             /\ r.inner.err.code = Num(r.status)
                             /\ NoMessageInBody(r) =>
                                   r.inner.err.message = Str("Request failed")
                  ELSE /\ r.inner = Resolved(ResStream)
                       /\ r.op = "streamSpeech" =>
                             /\ r.outcome = Resolved(ResStream)
                             /\ r.conn = "handed"
                             /\ r.chunks = <<>>

\* C14 witness: an error response whose body is not JSON has ended.
C14_Witness ==
    \E c \in Calls :
        /\ call[c].kind = "stream"
        /\ call[c].status = 401
        /\ call[c].conn = "ended"
        /\ Len(call[c].chunks) = 2
        /\ ~BodyJSON(call[c]).ok
        /\ call[c].inner.err.message = Str("Request failed")

\* The pipe of streamSpeechToFile has failed: the sink has emitted 'error', or
\* the response has (the connection closed before the end of the body).
PipeFailed(r) ==
    /\ r.op = "streamSpeechToFile"
    /\ r.inner.st = "resolved"
    /\ r.sink = "errored" \/ r.conn = "closed"

\* C15: once the pipe of streamSpeechToFile is set up, an error of the
\* response stream or of the file sink rejects the call with that error (the
\* first one, if both fail), the call is never resolved afterwards, and what
\* the sink has written stays in the file.
C15_PipeErrorRejects ==
    \A c \in Calls :
        LET r == call[c]
        IN  PipeFailed(r) =>
                /\ r.outcome.st = "rejected"
                /\ r.outcome.err \in {FsError, Aborted}
                /\ r.conn # "closed" => r.outcome.err = FsError
                /\ r.sink # "errored" => r.outcome.err = Aborted
                /\ r.file.exists
                /\ r.file.content \o Concat(r.sinkBuf) = Concat(r.chunks)

\* C15 witness: the sink failed after it had written a chunk.
C15_Witness ==
    \E c \in Calls :
        /\ PipeFailed(call[c])
        /\ call[c].sink = "errored"
        /\ call[c].file.content # <<>>
        /\ call[c].sinkBuf # <<>>
        /\ call[c].outcome = Rejected(FsError)

\* C16: no call is left pending for ever: as long as the process runs and a
\* call is pending, some event can still happen.
C16_PendingCanProgress ==
    \A c \in Calls :
        (call[c].op # "none" /\ call[c].outcome.st = "pending" /\ ~crashed) =>
            ENABLED (OnResponse(c) \/ OnData(c) \/ OnEnd(c) \/ OnError(c)
                        \/ OnTimeout(c) \/ OnAborted(c) \/ SinkFlush(c) \/ SinkError(c))

\* C17: every request carries the client's API key as a Bearer credential in
\* its Authorization header, and the SDK's User-Agent.
C17_AuthHeaders ==
    \A c \in Calls :
        LET r == call[c]
        IN  r.nreq > 0 =>
                /\ r.req.authorization = [t |-> "bearer", key |-> client.apiKey]
                /\ r.req.userAgent = "VoiceAI-SDK/1.1.4"

\* C17 witness: a streaming request has been sent.
C17_Witness ==
    \E c \in Calls :
        /\ call[c].kind = "stream"
        /\ call[c].nreq = 1
        /\ call[c].req.authorization.key = Str("sk-live")

\* C20: every buffered response with a status >= 400 rejects the call with a
\* typed error, whatever its body; when the body is not JSON the message is
\* the body's text, or 'Unknown error' when the body is empty.
C20_ErrorBodyAlwaysRejects ==
    \A c \in Calls :
        LET r == call[c]
        IN  (BufferedEnded(r) /\ r.status >= 400) =>
                /\ r.inner.st = "rejected"
                /\ r.inner.err.name \in SdkErrorNames
                /\ ~BodyJSON(r).ok =>
                      r.inner.err.message =
                          IF r.chunks = <<>> THEN Str("Unknown error") ELSE BodyText(r)

\* C20 for every body but the JSON text null.
C20_RejectsUnlessNullBody ==
    \A c \in Calls :
        LET r == call[c]
        IN  (BufferedEnded(r) /\ r.status >= 400 /\ BodyJSON(r).val # Null) =>
                /\ r.inner.st = "rejected"
                /\ r.inner.err.name \in SdkErrorNames
                /\ ~BodyJSON(r).ok =>
                      r.inner.err.message =
                          IF r.chunks = <<>> THEN Str("Unknown error") ELSE BodyText(r)

\* The run names a voice that voices.json does not define.
VoiceUnknown(k) == ~Falsy(k.voice) /\ ToLowerCase(k.voice).s \notin VoiceNames

\* The run stops before main reaches the SDK call.
CliRefused(k) == Falsy(k.text) \/ Falsy(k.key) \/ VoiceUnknown(k)

\* C18: a run of the tool (other than a request for help) with no --text, no
\* API key, a voice name the table does not define, or a rejected SDK
\* operation has printed the error on standard error and has exited with a
\* non-zero status, and never prints the 'Saved to' line; in the first three
\* cases no SDK request has been issued.
C18_CliFailsLoudly ==
    (cli.pc \notin {"none", "start"} /\ ~cli.help) =>
        /\ (CliRefused(cli) \/ call[1].outcome.st = "rejected") =>
              /\ cli.pc = "exited"
              /\ cli.exit # 0
              /\ cli.stderr # <<>>
              /\ \A i \in 1..Len(cli.stdout) : cli.stdout[i] # SavedLine
        /\ CliRefused(cli) => call[1].op = "none" /\ call[1].nreq = 0

\* C18 for the runs whose voice name is not a property every object inherits.
C18_CliFailsLoudlyOwnNames ==
    (cli.pc \notin {"none", "start"} /\ ~cli.help
        /\ (Falsy(cli.voice) \/ ToLowerCase(cli.voice).s \notin InheritedNames)) =>
        /\ (CliRefused(cli) \/ call[1].outcome.st = "rejected") =>
              /\ cli.pc = "exited"
              /\ cli.exit # 0
              /\ cli.stderr # <<>>
              /\ \A i \in 1..Len(cli.stdout) : cli.stdout[i] # SavedLine
        /\ CliRefused(cli) => call[1].op = "none" /\ call[1].nreq = 0

\* C19: calls in flight on one client are independent: a step of one call
\* leaves the client's configuration and every other call's record as they
\* are, and no call's events stop another call, which can still get its own
\* events while it is in flight.
C19_CallsIndependent ==
    /\ client.apiKey = ctor.apiKey /\ client.baseUrl = BASE_URL
    /\ \A c \in Calls :
          call[c].conn \in {"open", "body"} => ENABLED OnError(c)

\* C19, the part about the records: every step changes at most one call's
\* record and never the client.
C19_StepsAreLocal ==
    [][/\ client' = client
       /\ \A c, d \in Calls : (c # d /\ call'[c] # call[c]) => call'[d] = call[d]]_vars

\* The pipe of streamSpeechToFile keeps the chunks in order and the sink's
\* buffer within its high-water mark, and is paused exactly while the sink is
\* full and has not drained since.
PipeInOrder(r) ==
    Piping(r) =>
        /\ r.file.content \o Concat(r.sinkBuf) = Concat(r.chunks)
        /\ Len(r.sinkBuf) <= SinkHighWater
        /\ Len(r.sinkBuf) >= SinkHighWater => r.paused
        /\ r.paused => r.sinkBuf # <<>>

\* C21: streamSpeechToFile forwards the chunks of the response to the file
\* sink in arrival order; the chunks read and not yet written never exceed
\* the sink's high-water mark; while the sink is full the response is paused
\* (no chunk is read), and it is resumed only by a step that drains the sink.
C21_Backpressure ==
    [][\A c \in Calls :
          LET r == call[c]
              n == call'[c]
          IN  /\ PipeInOrder(n)
              /\ (Piping(r) /\ r.paused) => n.chunks = r.chunks /\ ~n.srcEnded
              /\ (Piping(r) /\ r.paused /\ ~n.paused) =>
                    n.sinkBuf = <<>> /\ Len(n.file.content) > Len(r.file.content)
              /\ (Piping(r) /\ Len(n.chunks) > Len(r.chunks)) =>
                    n.sinkBuf = Append(r.sinkBuf, n.chunks[Len(n.chunks)])]_vars

\* C21 witness: the pipe was paused with a full sink, the sink has drained,
\* and a further chunk has been read after that.
C21_Witness ==
    \E c \in Calls :
        LET r == call[c]
        IN  /\ Piping(r)
            /\ Len(r.chunks) = SinkHighWater + 1
            /\ Len(r.file.content) >= Len(Concat(SubSeq(r.chunks, 1, SinkHighWater)))
            /\ Len(r.sinkBuf) = 1
            /\ r.sink = "open"

====
